---- MODULE Spec2Model ----
(***************************************************************************)
(* Memory Palace (src/index.tsx): story generation with a fan-out of       *)
(* illustration requests, the Deck they fill, the quiz session over the    *)
(* Deck and the persisted coin balance.                                    *)
(*                                                                         *)
(* JavaScript is single-threaded: every action below is one task of the    *)
(* event loop (a click handler, a timer callback, or the continuation of   *)
(* an await together with the microtasks it releases).  Array indices and  *)
(* currentQuestionIndex are 0-based as in the source; TLA+ sequences are   *)
(* 1-based, so element i of an array is arr[i + 1].                        *)
(*                                                                         *)
(* The page markup is not part of the source.  The model takes the quiz    *)
(* and summary regions and the start-review button to start hidden, and    *)
(* the textarea, the generate button and the start-review button to lie    *)
(* in mainContainer, so that neither can be used while it is hidden.       *)
(*                                                                         *)
(* Not modelled: the button label and spinner of setLoading, the 600 ms    *)
(* 'awarded' CSS class of awardCoins, the quiz image/progress texts, the   *)
(* 'correct'/'incorrect' classes of the answer buttons and imagePrompt     *)
(* (written to the DOM or sent out, never read back).                      *)
(***************************************************************************)
EXTENDS Integers, Sequences, FiniteSets

\* ---------------------------------------------------------------- constants
COINS_PER_STORY == 10
COINS_PER_CORRECT_ANSWER == 5

\* ------------------------------------------------------------------- bounds
\* characters in one narrative response
MaxChars == 3
\* distinct fact texts the narrative can return
NumFacts == 3
\* the coin balance the model lets the ledger reach
MaxCoins == 40

Facts == 1..NumFacts
\* base64 payloads an image response can carry
ImageBytes == {"QUJD"}

VARIABLES
    isLoading,              \* line 43
    coins,                  \* line 44
    currentDeck,            \* line 48
    currentQuestionIndex,   \* line 49
    score,                  \* line 50
    coinsEarnedThisSession, \* line 51
    localStorage,           \* value under key 'memoryPalaceCoins'
    coinCount,              \* coinCountSpan.textContent
    factsInput,             \* factsInput.value
    storyOutput,            \* what storyOutput shows
    characterGallery,       \* one card per generateImage call
    galleryTitleHidden,
    startReviewHidden,
    mainHidden,             \* mainContainer.hidden
    quizHidden,             \* quizContainer.hidden
    summaryHidden,          \* quizSummary.hidden
    quizAnswers,            \* the answer buttons: their texts, in order
    correctAnswer,          \* character.fact captured by the buttons' onclick
    buttonsDisabled,        \* 'disabled' attribute of the answer buttons
    advanceTimers,          \* pending 1500 ms timeouts of handleAnswer
    summaryScore,           \* <<score, out of>> once written
    summaryCoins,           \* <<coins earned>> once written
    pc,                     \* where generateStoryAndImages is suspended
    data,                   \* data.characters of the parsed narrative response
    pending,                \* indices whose generateImage awaits its response
    alertOpen,              \* the modal alert() a handler is blocked in
    sessionCorrect          \* history: selections of this session equal to the
                            \* displayed entry's fact

vars == <<isLoading, coins, currentDeck, currentQuestionIndex, score,
          coinsEarnedThisSession, localStorage, coinCount, factsInput,
          storyOutput, characterGallery, galleryTitleHidden, startReviewHidden,
          mainHidden, quizHidden, summaryHidden, quizAnswers, correctAnswer,
          buttonsDisabled, advanceTimers, summaryScore, summaryCoins,
          pc, data, pending, alertOpen, sessionCorrect>>

\* variable groups, for UNCHANGED
ledgerVars == <<coins, coinsEarnedThisSession, localStorage, coinCount>>
quizVars == <<currentQuestionIndex, score, quizAnswers, correctAnswer,
              buttonsDisabled, advanceTimers, summaryScore,
              summaryCoins, sessionCorrect>>
viewVars == <<mainHidden, quizHidden, summaryHidden>>
outputVars == <<storyOutput, characterGallery, galleryTitleHidden,
                startReviewHidden>>
genVars == <<isLoading, pc, data, pending>>

\* ------------------------------------------------------------------ strings
DigitChars == <<"0", "1", "2", "3", "4", "5", "6", "7", "8", "9">>

\* Number.prototype.toString() of a non-negative integer: decimal digits
RECURSIVE toString(_)
toString(n) ==
    IF n < 10 THEN <<DigitChars[n + 1]>>
    ELSE Append(toString(n \div 10), DigitChars[(n % 10) + 1])

DigitValue(c) == (CHOOSE d \in 1..10 : DigitChars[d] = c) - 1

\* parseInt(s, 10) of a string of decimal digits
RECURSIVE parseInt(_)
parseInt(s) ==
    IF Len(s) = 0 THEN 0
    ELSE 10 * parseInt(SubSeq(s, 1, Len(s) - 1)) + DigitValue(s[Len(s)])

\* localStorage.getItem of a key never written
Null == <<"null">>

\* faulty variant: the value is tested without trim()
TrimNone(s) == s

\* String.prototype.trim()
RECURSIVE Trim(_)
Trim(s) ==
    IF Len(s) = 0 THEN s
    ELSE IF s[1] = " " THEN Trim(Tail(s))
    ELSE IF s[Len(s)] = " " THEN Trim(SubSeq(s, 1, Len(s) - 1))
    ELSE s

RECURSIVE SeqsUpTo(_, _)
SeqsUpTo(S, n) ==
    IF n = 0 THEN {<<>>}
    ELSE LET shorter == SeqsUpTo(S, n - 1)
         IN  shorter \cup {Append(s, x) : s \in shorter, x \in S}

\* what the user can have typed into the textarea: nothing, blanks only, or
\* a fact with blanks around it
FactsTexts == {<<>>, <<" ", " ">>, <<" ", "a", " ">>}

\* --------------------------------------------------------------- characters
\* imageUrl absent (undefined)
NoImage == <<>>

\* interface Character; characterName is the narrator's label, here the
\* position of the character in the response
Character(f, n) == [fact |-> f, characterName |-> n, imageUrl |-> NoImage]

\* an array hole (undefined element)
Hole == [fact |-> 0, characterName |-> 0, imageUrl |-> NoImage]

\* The program only ever tests facts for equality, so the fact texts of a
\* response are taken up to renaming: the first fact is 1, and each later one
\* repeats an earlier fact or is the next unused one.
FirstUse(fs) ==
    \A i \in 1..Len(fs) :
        \/ fs[i] = 1
        \/ \E j \in 1..(i - 1) : fs[j] = fs[i] \/ fs[j] = fs[i] - 1

\* the characters arrays a narrative response can carry
Responses ==
    {[i \in 1..Len(fs) |-> Character(fs[i], i)] :
        fs \in {gs \in SeqsUpTo(Facts, MaxChars) : FirstUse(gs)}}

\* arr[index] = value on a JavaScript array (index 0-based)
ArraySet(arr, index, value) ==
    IF index < Len(arr) THEN [arr EXCEPT ![index + 1] = value]
    ELSE arr \o [k \in 1..(index - Len(arr)) |-> Hole] \o <<value>>

\* ------------------------------------------------------------ reward ledger
\* faulty variant: the balance is written before it is updated
saveGameDataStale == localStorage' = toString(coins)

saveGameData == localStorage' = toString(coins')

updateCoinDisplay == coinCount' = toString(coins')

\* faulty variant: the stored value is never read back
LoadedCoinsIgnored(savedCoins) == 0

\* the balance loadGameData computes from what is stored
LoadedCoins(savedCoins) ==
    IF savedCoins # Null /\ savedCoins # <<>> THEN parseInt(savedCoins) ELSE 0

loadGameData ==
    /\ coins' = LoadedCoins(localStorage)
    /\ updateCoinDisplay

awardCoins(amount) ==
    /\ coins' = coins + amount
    /\ coinsEarnedThisSession' = coinsEarnedThisSession + amount
    /\ saveGameData
    /\ updateCoinDisplay

\* -------------------------------------------------------------- core logic
setLoading(loading) == isLoading' = loading

\* shown: what storyOutput holds when the caller returns (the placeholder of
\* line 119, which the catch block overwrites at line 208)
resetOutput(shown) ==
    /\ storyOutput' = shown
    /\ characterGallery' = <<>>
    /\ galleryTitleHidden' = TRUE
    /\ startReviewHidden' = TRUE
    /\ factsInput' = <<>>

\* `data:image/jpeg;base64,${base64ImageBytes}`
ImageUrl(base64ImageBytes) == <<"data:image/jpeg;base64,", base64ImageBytes>>

\* generateImage up to its await: the Deck with the character stored at index
generateImageDeck(deck, characterData, index) ==
    ArraySet(deck, index, characterData)

\* data.characters.map(...): generateImage is entered for index 0, 1, ... in
\* turn, each call running to its await before the next starts
RECURSIVE MapGenerateImage(_, _, _)
MapGenerateImage(characters, index, deck) ==
    IF index >= Len(characters) THEN deck
    ELSE MapGenerateImage(characters, index + 1,
                          generateImageDeck(deck, characters[index + 1], index))

\* faulty variant: the finished character is pushed in order of arrival
generateImageResolvedPush(deck, index, bytes) ==
    Append(deck, [deck[index + 1] EXCEPT !.imageUrl = ImageUrl(bytes)])

\* the Deck after generateImage's request for index came back with bytes
generateImageResolved(deck, index, bytes) ==
    [deck EXCEPT ![index + 1].imageUrl = ImageUrl(bytes)]

\* faulty variant: the catch block drops the illustrations already stored
generateImageRejectedClears(deck, index) ==
    [i \in 1..Len(deck) |-> [deck[i] EXCEPT !.imageUrl = NoImage]]

\* the Deck after generateImage's request for index failed
generateImageRejected(deck, index) == deck

\* faulty variant: the await resumes with the first request to settle
AllSettledRace(outstanding, n) == Cardinality(outstanding) < n

\* await Promise.all(imagePromises): generateImage catches every failure, so
\* each promise fulfils and the await resumes when none is outstanding
AllSettled(outstanding, n) == outstanding = {}

\* faulty variant: the award sits inside the if block of line 192
StoryAwardInsideIf(n) ==
    IF n > 0 THEN awardCoins(COINS_PER_STORY) ELSE UNCHANGED ledgerVars

\* line 203, after the if block: the award of a generation whose response
\* carried n characters
StoryAward(n) == awardCoins(COINS_PER_STORY)

\* faulty variant: the button is un-hidden after the if block
ReviewHiddenOutsideIf(n) == FALSE

\* startReviewButton.hidden once a response of n characters is dealt with:
\* line 200 sits inside the if block of line 192
ReviewHidden(n) == IF n > 0 THEN FALSE ELSE startReviewHidden

\* generateStoryAndImages after Promise.all: lines 200, 203, 210
StoryReady ==
    /\ startReviewHidden' = ReviewHidden(Len(data))
    /\ StoryAward(Len(data))
    /\ setLoading(FALSE)
    /\ pc' = "idle"

\* the coin budget one story and its review can add (model bound)
WithinBudget ==
    coins + COINS_PER_STORY + MaxChars * COINS_PER_CORRECT_ANSWER <= MaxCoins

\* faulty variant: the guard of line 131 is missing
AlreadyLoadingUnchecked == FALSE

\* line 131: if (isLoading) return
AlreadyLoading == isLoading

\* click on generateButton: generateStoryAndImages up to its first await
GenerateClick ==
    /\ alertOpen = "none"
    /\ ~mainHidden
    /\ IF AlreadyLoading THEN UNCHANGED vars
       ELSE IF Trim(factsInput) = <<>> THEN
            /\ alertOpen' = "facts"
            /\ UNCHANGED <<ledgerVars, quizVars, viewVars, outputVars, genVars,
                           currentDeck, factsInput>>
       ELSE /\ WithinBudget
            /\ setLoading(TRUE)
            /\ storyOutput' = "empty"
            /\ characterGallery' = <<>>
            /\ galleryTitleHidden' = TRUE
            /\ startReviewHidden' = TRUE
            /\ currentDeck' = <<>>
            /\ pc' = "narrative"
            /\ data' = <<>>
            /\ UNCHANGED <<ledgerVars, quizVars, viewVars, pending, factsInput,
                           alertOpen>>

\* the narrative request fulfils and parses: lines 189-203, 209-211
NarrativeResolve(characters) ==
    /\ alertOpen = "none"
    /\ pc = "narrative"
    /\ data' = characters
    /\ storyOutput' = "story"
    /\ IF Len(characters) > 0 THEN
            /\ galleryTitleHidden' = FALSE
            /\ characterGallery' =
                   characterGallery \o [i \in 1..Len(characters) |-> "spinner"]
            /\ currentDeck' = MapGenerateImage(characters, 0, currentDeck)
            /\ pending' = 0..(Len(characters) - 1)
            /\ pc' = "images"
            /\ setLoading(TRUE)
            /\ UNCHANGED <<ledgerVars, startReviewHidden>>
       ELSE /\ startReviewHidden' = ReviewHidden(Len(characters))
            /\ StoryAward(Len(characters))
            /\ setLoading(FALSE)
            /\ pc' = "idle"
            /\ UNCHANGED <<galleryTitleHidden, characterGallery, currentDeck,
                           pending>>
    /\ UNCHANGED <<quizVars, viewVars, factsInput, alertOpen>>

\* faulty variant: the award sits in the finally block
NarrativeRejectAward ==
    /\ alertOpen = "none"
    /\ pc = "narrative"
    /\ resetOutput("error")
    /\ awardCoins(COINS_PER_STORY)
    /\ setLoading(FALSE)
    /\ pc' = "idle"
    /\ UNCHANGED <<quizVars, viewVars, currentDeck, data, pending, alertOpen>>

\* faulty variant: the finally block of line 210 is missing
NarrativeRejectStillLoading ==
    /\ alertOpen = "none"
    /\ pc = "narrative"
    /\ resetOutput("error")
    /\ pc' = "idle"
    /\ UNCHANGED <<ledgerVars, quizVars, viewVars, currentDeck, data, pending,
                   alertOpen, isLoading>>

\* the narrative request rejects, or its text does not parse: lines 205-211
NarrativeReject ==
    /\ alertOpen = "none"
    /\ pc = "narrative"
    /\ resetOutput("error")
    /\ setLoading(FALSE)
    /\ pc' = "idle"
    /\ UNCHANGED <<ledgerVars, quizVars, viewVars, currentDeck, data, pending,
                   alertOpen>>

\* the card of generateImage(_, index), if still in the gallery
SetCard(index, content) ==
    characterGallery' =
        IF index < Len(characterGallery)
        THEN [characterGallery EXCEPT ![index + 1] = content]
        ELSE characterGallery

\* what follows a settled generateImage: the awaiting generateStoryAndImages
\* resumes in the same task once Promise.all is fulfilled
AfterSettle(index) ==
    /\ pending' = pending \ {index}
    /\ IF pc = "images" /\ AllSettled(pending', Len(data))
       THEN StoryReady
       ELSE UNCHANGED <<ledgerVars, startReviewHidden, isLoading, pc>>
    /\ UNCHANGED <<quizVars, viewVars, storyOutput, galleryTitleHidden,
                   factsInput, data, alertOpen>>

\* an image request fulfils: lines 240-247 (a missing Deck entry throws
\* inside the try and ends in the catch block)
ImageResolve(index, bytes) ==
    /\ alertOpen = "none"
    /\ index \in pending
    /\ IF index < Len(currentDeck) /\ currentDeck[index + 1] # Hole THEN
            /\ currentDeck' = generateImageResolved(currentDeck, index, bytes)
            /\ SetCard(index, "img")
       ELSE /\ currentDeck' = generateImageRejected(currentDeck, index)
            /\ SetCard(index, "warning")
    /\ AfterSettle(index)

\* faulty variant: generateImage lets the failure escape, Promise.all rejects
\* and the catch block of generateStoryAndImages runs
ImageRejectFailsBatch(index) ==
    /\ alertOpen = "none"
    /\ index \in pending
    /\ pending' = pending \ {index}
    /\ currentDeck' = generateImageRejected(currentDeck, index)
    /\ IF pc = "images"
       THEN resetOutput("error") /\ setLoading(FALSE) /\ pc' = "idle"
       ELSE UNCHANGED <<outputVars, factsInput, isLoading, pc>>
    /\ UNCHANGED <<ledgerVars, quizVars, viewVars, data, alertOpen>>

\* an image request rejects (or carries no image): lines 248-251
ImageReject(index) ==
    /\ alertOpen = "none"
    /\ index \in pending
    /\ currentDeck' = generateImageRejected(currentDeck, index)
    /\ SetCard(index, "warning")
    /\ AfterSettle(index)

\* --------------------------------------------------------------- quiz logic
Swap(arr, i, j) == [arr EXCEPT ![i + 1] = arr[j + 1], ![j + 1] = arr[i + 1]]

\* the values Math.floor(Math.random() * (i + 1)) can take for i = n-1 .. 1
RandomDraws(n) == {r \in [1..(n - 1) -> 0..(n - 1)] : \A i \in 1..(n - 1) : r[i] <= i}

\* for (let i = arr.length - 1; i > 0; i--) swap arr[i], arr[random[i]]
RECURSIVE Shuffle(_, _, _)
Shuffle(arr, i, random) ==
    IF i <= 0 THEN arr ELSE Shuffle(Swap(arr, i, random[i]), i - 1, random)

\* arr.slice(0, end)
Slice(arr, end) == SubSeq(arr, 1, IF end < Len(arr) THEN end ELSE Len(arr))

\* currentDeck.map(c => c.fact).filter(fact => fact !== correct)
Distractors(deck, correct) ==
    LET IsOther(fact) == fact # correct
    IN  SelectSeq([i \in 1..Len(deck) |-> deck[i].fact], IsOther)

\* generateMultipleChoice with the random draws of its two shuffles
\* (each intermediate array is bound once, as the const of lines 300-316)
generateMultipleChoice(deck, correct, random1, random2) ==
    CHOOSE result \in
        {Shuffle(options, Len(options) - 1, random2) :
            options \in
                {<<correct>> \o Slice(shuffled, 2) :
                    shuffled \in
                        {Shuffle(distractors, Len(distractors) - 1, random1) :
                            distractors \in {Distractors(deck, correct)}}}} :
        TRUE

\* every result generateMultipleChoice can return for this Deck and answer
MultipleChoiceSets(deck, correct) ==
    LET nd == Len(Distractors(deck, correct))
        no == 1 + (IF nd < 2 THEN nd ELSE 2)
    IN  {generateMultipleChoice(deck, correct, r1, r2) :
            r1 \in RandomDraws(nd), r2 \in RandomDraws(no)}

\* the fact displayQuestion reads for question index
QuestionFact(deck, index) == deck[index + 1].fact

\* displayQuestion for currentQuestionIndex = index: fresh, enabled buttons.
\* With no Deck entry at index, character.imageUrl (line 278) throws and the
\* buttons of the previous question stay as they are.
displayQuestion(index) ==
    IF index < Len(currentDeck) /\ currentDeck[index + 1] # Hole THEN
        /\ correctAnswer' = QuestionFact(currentDeck, index)
        /\ \E options \in MultipleChoiceSets(currentDeck,
                                QuestionFact(currentDeck, index)) :
               quizAnswers' = options
        /\ buttonsDisabled' = FALSE
    ELSE UNCHANGED <<correctAnswer, quizAnswers, buttonsDisabled>>

showSummary ==
    /\ quizHidden' = TRUE
    /\ summaryHidden' = FALSE
    /\ summaryScore' = <<toString(score), toString(Len(currentDeck))>>
    /\ summaryCoins' = <<toString(coinsEarnedThisSession)>>

\* faulty variant: the guard lets a Deck of one entry through
DeckTooSmallOffByOne(deck) == Len(deck) < 1

\* the guard of startQuiz, line 260
DeckTooSmall(deck) == Len(deck) < 2

\* faulty variant: the session reward is not reset
QuizResetKeepsReward ==
    /\ currentQuestionIndex' = 0
    /\ score' = 0
    /\ UNCHANGED coinsEarnedThisSession

\* faulty variant: the score of the previous session is kept
QuizResetKeepsScore ==
    /\ currentQuestionIndex' = 0
    /\ UNCHANGED score
    /\ coinsEarnedThisSession' = 0

\* lines 266-268
QuizReset ==
    /\ currentQuestionIndex' = 0
    /\ score' = 0
    /\ coinsEarnedThisSession' = 0

\* faulty variant: the authoring view stays visible beside the quiz
EnterQuizViewBeside ==
    /\ mainHidden' = FALSE
    /\ quizHidden' = FALSE

\* lines 264-265
EnterQuizView ==
    /\ mainHidden' = TRUE
    /\ quizHidden' = FALSE

\* click on startReviewButton
startQuiz ==
    /\ alertOpen = "none"
    /\ ~mainHidden
    /\ ~startReviewHidden
    /\ IF DeckTooSmall(currentDeck) THEN
            /\ alertOpen' = "deck"
            /\ UNCHANGED <<ledgerVars, quizVars, viewVars, outputVars, genVars,
                           currentDeck, factsInput>>
       ELSE /\ EnterQuizView
            /\ QuizReset
            /\ sessionCorrect' = 0
            /\ displayQuestion(currentQuestionIndex')
            /\ UNCHANGED <<coins, localStorage, coinCount, summaryHidden,
                           outputVars, genVars, currentDeck, factsInput,
                           advanceTimers, summaryScore, summaryCoins, alertOpen>>

\* faulty variant: score++ outside the comparison
ScoredAlways(selectedAnswer, correct) == score + 1

\* the score after handleAnswer's comparison
Scored(selectedAnswer, correct) ==
    IF selectedAnswer = correct THEN score + 1 ELSE score

\* faulty variant: the buttons are left enabled
DisableButtonsSkipped == UNCHANGED buttonsDisabled

\* lines 326-328: every answer button gets the disabled attribute
DisableButtons == buttonsDisabled' = TRUE

\* click on the enabled answer button number k (1-based position)
handleAnswer(k) ==
    /\ alertOpen = "none"
    /\ ~quizHidden
    /\ ~buttonsDisabled
    /\ k \in 1..Len(quizAnswers)
    /\ LET selectedAnswer == quizAnswers[k] IN
        /\ DisableButtons
        /\ score' = Scored(selectedAnswer, correctAnswer)
        /\ IF selectedAnswer = correctAnswer
           THEN awardCoins(COINS_PER_CORRECT_ANSWER)
           ELSE UNCHANGED ledgerVars
        /\ sessionCorrect' =
              IF selectedAnswer = currentDeck[currentQuestionIndex + 1].fact
              THEN sessionCorrect + 1 ELSE sessionCorrect
    /\ advanceTimers' = advanceTimers + 1
    /\ UNCHANGED <<currentQuestionIndex, quizAnswers, correctAnswer,
                   summaryScore, summaryCoins, viewVars, outputVars, genVars,
                   currentDeck, factsInput, alertOpen>>

\* faulty variant: the comparison admits the index one past the Deck
HasNextQuestionInclusive(index, deck) == index <= Len(deck)

\* line 343
HasNextQuestion(index, deck) == index < Len(deck)

\* the 1500 ms timeout of handleAnswer fires: lines 341-348
AdvanceTimer ==
    /\ alertOpen = "none"
    /\ advanceTimers > 0
    /\ advanceTimers' = advanceTimers - 1
    /\ currentQuestionIndex' = currentQuestionIndex + 1
    /\ IF HasNextQuestion(currentQuestionIndex + 1, currentDeck) THEN
            /\ displayQuestion(currentQuestionIndex + 1)
            /\ UNCHANGED <<quizHidden, summaryHidden, summaryScore, summaryCoins>>
       ELSE /\ showSummary
            /\ UNCHANGED <<quizAnswers, correctAnswer, buttonsDisabled>>
    /\ UNCHANGED <<score, sessionCorrect, mainHidden, ledgerVars, outputVars,
                   genVars, currentDeck, factsInput, alertOpen>>

\* click on resetButton
resetApp ==
    /\ alertOpen = "none"
    /\ ~summaryHidden
    /\ summaryHidden' = TRUE
    /\ mainHidden' = FALSE
    /\ resetOutput("placeholder")
    /\ UNCHANGED <<ledgerVars, quizVars, quizHidden, genVars, currentDeck,
                   alertOpen>>

\* ------------------------------------------------------------- environment
\* the user edits the facts textarea
TypeFacts(text) ==
    /\ alertOpen = "none"
    /\ ~mainHidden
    /\ text # factsInput
    /\ factsInput' = text
    /\ UNCHANGED <<ledgerVars, quizVars, viewVars, outputVars, genVars,
                   currentDeck, alertOpen>>

\* the user dismisses the alert; the blocked handler returns
DismissAlert ==
    /\ alertOpen # "none"
    /\ alertOpen' = "none"
    /\ UNCHANGED <<ledgerVars, quizVars, viewVars, outputVars, genVars,
                   currentDeck, factsInput>>

\* module state as the script's top level leaves it, but for the ledger
Fresh ==
    /\ isLoading = FALSE
    /\ currentDeck = <<>>
    /\ currentQuestionIndex = 0
    /\ score = 0
    /\ coinsEarnedThisSession = 0
    /\ factsInput = <<>>
    /\ storyOutput = "placeholder"
    /\ characterGallery = <<>>
    /\ galleryTitleHidden = TRUE
    /\ startReviewHidden = TRUE
    /\ mainHidden = FALSE
    /\ quizHidden = TRUE
    /\ summaryHidden = TRUE
    /\ quizAnswers = <<>>
    /\ correctAnswer = 0
    /\ buttonsDisabled = FALSE
    /\ advanceTimers = 0
    /\ summaryScore = <<>>
    /\ summaryCoins = <<>>
    /\ pc = "idle"
    /\ data = <<>>
    /\ pending = {}
    /\ alertOpen = "none"
    /\ sessionCorrect = 0

\* first page load: nothing stored yet; setLoading(false); loadGameData()
Init ==
    /\ Fresh
    /\ localStorage = Null
    /\ coins = LoadedCoins(localStorage)
    /\ coinCount = toString(coins)

\* the page is loaded again: the script restarts over the stored balance
Reload ==
    /\ alertOpen = "none"
    /\ isLoading' = FALSE
    /\ currentDeck' = <<>>
    /\ currentQuestionIndex' = 0
    /\ score' = 0
    /\ coinsEarnedThisSession' = 0
    /\ factsInput' = <<>>
    /\ storyOutput' = "placeholder"
    /\ characterGallery' = <<>>
    /\ galleryTitleHidden' = TRUE
    /\ startReviewHidden' = TRUE
    /\ mainHidden' = FALSE
    /\ quizHidden' = TRUE
    /\ summaryHidden' = TRUE
    /\ quizAnswers' = <<>>
    /\ correctAnswer' = 0
    /\ buttonsDisabled' = FALSE
    /\ advanceTimers' = 0
    /\ summaryScore' = <<>>
    /\ summaryCoins' = <<>>
    /\ pc' = "idle"
    /\ data' = <<>>
    /\ pending' = {}
    /\ alertOpen' = "none"
    /\ sessionCorrect' = 0
    /\ loadGameData
    /\ UNCHANGED localStorage

Next ==
    \/ \E text \in FactsTexts : TypeFacts(text)
    \/ GenerateClick
    \/ \E characters \in Responses : NarrativeResolve(characters)
    \/ NarrativeReject
    \/ \E index \in pending, bytes \in ImageBytes : ImageResolve(index, bytes)
    \/ \E index \in pending : ImageReject(index)
    \/ startQuiz
    \/ \E k \in 1..3 : handleAnswer(k)
    \/ AdvanceTimer
    \/ resetApp
    \/ DismissAlert
    \/ Reload

Spec == Init /\ [][Next]_vars

\* the event loop runs a due timeout callback (line 341), and the user, as
\* assumed of a learner taking the quiz, answers a question that is on display
LiveSpec ==
    /\ Spec
    /\ WF_vars(AdvanceTimer)
    /\ \A k \in 1..3 : WF_vars(handleAnswer(k))

\* ===================================================================== claims
SameDescriptor(a, b) ==
    a.fact = b.fact /\ a.characterName = b.characterName

DeckFacts == [i \in 1..Len(currentDeck) |-> currentDeck[i].fact]

DistinctFacts ==
    \A i, j \in 1..Len(currentDeck) : i # j => DeckFacts[i] # DeckFacts[j]

MissingImages == {i \in 1..Len(currentDeck) : currentDeck[i].imageUrl = NoImage}

\* C1: index i of the Deck holds the i-th character of the narrative response
\* however the illustration requests resolve, and once all have settled the
\* Deck has exactly as many entries as the response has characters.
C1_DeckFollowsNarrativeOrder ==
    /\ \A i \in 0..(Len(data) - 1) :
          /\ i < Len(currentDeck)
          /\ SameDescriptor(currentDeck[i + 1], data[i + 1])
    /\ pending = {} => Len(currentDeck) = Len(data)

\* a batch of three settled with the last request resolved and the first failed
C1_Witness ==
    /\ pc = "idle"
    /\ pending = {}
    /\ Len(data) = 3
    /\ DistinctFacts
    /\ characterGallery = <<"warning", "img", "img">>
    /\ currentDeck[3].imageUrl # NoImage

\* C2: the start-review button is never visible while an illustration request
\* is outstanding.
C2_NoRevealBeforeAllSettled == pending # {} => startReviewHidden

\* one request succeeded, one failed, one is outstanding: still hidden
C2_Witness ==
    /\ Cardinality(pending) = 1
    /\ \E i, j \in 1..Len(characterGallery) :
          characterGallery[i] = "img" /\ characterGallery[j] = "warning"
    /\ startReviewHidden

\* C3: an answer selection raises score by 1 and awards exactly
\* COINS_PER_CORRECT_ANSWER when the selected option is the displayed entry's
\* fact, and otherwise leaves score and the balance (in memory and stored) as
\* they were.
C3_AwardIffCorrect ==
    [][(~buttonsDisabled /\ buttonsDisabled') =>
          IF sessionCorrect' = sessionCorrect + 1
          THEN /\ score' = score + 1
               /\ coins' = coins + COINS_PER_CORRECT_ANSWER
               /\ coinsEarnedThisSession' =
                      coinsEarnedThisSession + COINS_PER_CORRECT_ANSWER
          ELSE /\ sessionCorrect' = sessionCorrect
               /\ UNCHANGED <<score, coins, coinsEarnedThisSession, localStorage>>]_vars

\* the second question answered wrongly after the first was answered correctly
C3_Witness ==
    /\ ~quizHidden
    /\ buttonsDisabled
    /\ currentQuestionIndex = 1
    /\ score = 1
    /\ sessionCorrect = 1
    /\ coinsEarnedThisSession = COINS_PER_CORRECT_ANSWER

\* C4: on a Deck of two or more entries with pairwise distinct facts a
\* displayed question offers exactly 3 pairwise distinct options, exactly one
\* of them the displayed entry's fact, the others facts of other entries.
C4_ThreeDistinctOptions ==
    (~quizHidden /\ Len(currentDeck) >= 2 /\ DistinctFacts) =>
        /\ Len(quizAnswers) = 3
        /\ \A i, j \in 1..Len(quizAnswers) : i # j => quizAnswers[i] # quizAnswers[j]
        /\ Cardinality({i \in 1..Len(quizAnswers) :
               quizAnswers[i] = QuestionFact(currentDeck, currentQuestionIndex)}) = 1
        /\ \A i \in 1..Len(quizAnswers) :
               \E j \in 1..Len(currentDeck) : quizAnswers[i] = DeckFacts[j]

\* C5: a generation in flight changes the balance only in the step that ends
\* it successfully, by exactly COINS_PER_STORY and with no request outstanding;
\* with no generation in flight no story award is made.
C5_StoryAwardOnce ==
    [][IF pc # "idle"
       THEN IF pc' = "idle" /\ storyOutput' = "story"
            THEN coins' = coins + COINS_PER_STORY /\ pending' = {}
            ELSE coins' = coins
       ELSE coins' = coins \/ coins' = coins + COINS_PER_CORRECT_ANSWER]_vars

\* a generation of three characters whose illustrations all failed, rewarded
C5_Witness ==
    /\ pc = "idle"
    /\ storyOutput = "story"
    /\ characterGallery = <<"warning", "warning", "warning">>
    /\ coins = COINS_PER_STORY
    /\ coinsEarnedThisSession = COINS_PER_STORY

\* C6: the submit step and every step while the narrative call is outstanding
\* or failing leave the balance, in memory and stored, unchanged.
C6_NoSpeculativeAward ==
    [][(pc' = "narrative" \/ (pc = "narrative" /\ storyOutput' # "story")) =>
          UNCHANGED <<coins, localStorage>>]_vars

\* a failed narrative call after an earlier story had been rewarded
C6_Witness ==
    /\ pc = "idle"
    /\ storyOutput = "error"
    /\ coins = COINS_PER_STORY
    /\ localStorage = toString(COINS_PER_STORY)

\* C7: while the summary is shown, the score (variable and summary text) is
\* the number of correctly answered questions of the session, out of the Deck
\* size, and the session reward (variable and summary text) is
\* COINS_PER_CORRECT_ANSWER times that number.
C7_SummaryMatchesSession ==
    ~summaryHidden =>
        /\ score = sessionCorrect
        /\ coinsEarnedThisSession = COINS_PER_CORRECT_ANSWER * sessionCorrect
        /\ summaryScore = <<toString(sessionCorrect), toString(Len(currentDeck))>>
        /\ summaryCoins = <<toString(COINS_PER_CORRECT_ANSWER * sessionCorrect)>>

\* three of three answered correctly on a Deck with one illustration missing
C7_Witness ==
    /\ ~summaryHidden
    /\ Len(currentDeck) = 3
    /\ Cardinality(MissingImages) = 1
    /\ sessionCorrect = 3
    /\ summaryScore = <<toString(3), toString(3)>>
    /\ summaryCoins = <<toString(3 * COINS_PER_CORRECT_ANSWER)>>

\* C8: with the start-review button shown over a Deck of fewer than 2 entries,
\* no step that leaves both so changes the view, the quiz position, the score,
\* the session reward, the Deck or the balance: startQuiz is rejected.
C8_SmallDeckRejected ==
    [][(/\ Len(currentDeck) < 2 /\ Len(currentDeck') < 2
        /\ ~mainHidden
        /\ ~startReviewHidden /\ ~startReviewHidden') =>
          UNCHANGED <<viewVars, currentQuestionIndex, score,
                      coinsEarnedThisSession, currentDeck, coins, localStorage>>]_vars

\* startQuiz rejected on a Deck of one entry
C8_Witness ==
    /\ alertOpen = "deck"
    /\ Len(currentDeck) = 1
    /\ ~mainHidden
    /\ quizHidden

\* C9: what loadGameData would read back always equals the balance in memory,
\* and once written the stored text is the decimal form of the balance.
C9_WriteThrough ==
    /\ LoadedCoins(localStorage) = coins
    /\ localStorage # Null => localStorage = toString(coins)

\* a reloaded page showing a balance of 25 built from earlier awards
C9_Witness ==
    /\ coins = 25
    /\ localStorage = <<"2", "5">>
    /\ storyOutput = "placeholder"
    /\ currentDeck = <<>>

\* C10: the balance is never negative and every step leaves it as it is or
\* raises it by exactly COINS_PER_CORRECT_ANSWER or COINS_PER_STORY.
C10_BalanceMonotone ==
    [][/\ coins >= 0
       /\ coins' >= 0
       /\ \/ coins' = coins
          \/ coins' = coins + COINS_PER_CORRECT_ANSWER
          \/ coins' = coins + COINS_PER_STORY]_vars

\* a balance built from one story and one correct answer, quiz in progress
C10_Witness ==
    /\ coins = COINS_PER_STORY + COINS_PER_CORRECT_ANSWER
    /\ ~quizHidden
    /\ score = 1

\* at most one generation: the flag is up exactly while generateStoryAndImages
\* is suspended, and every outstanding request belongs to its response
OneGeneration(loading, at, outstanding, characters) ==
    /\ loading <=> at # "idle"
    /\ outstanding # {} <=> at = "images"
    /\ outstanding \subseteq 0..(Len(characters) - 1)

\* C11: the loading flag is up from an accepted submission until the narrative
\* call and every illustration request have settled; every outstanding request
\* belongs to the one generation in flight; and while the flag is up no step
\* starts another generation or replaces the response or the Deck's entries.
C11_SingleGenerationInFlight ==
    [][/\ OneGeneration(isLoading, pc, pending, data)
       /\ OneGeneration(isLoading', pc', pending', data')
       /\ isLoading =>
            /\ pc' = "narrative" => pc = "narrative" /\ UNCHANGED <<currentDeck, data>>
            /\ (pc = "images" /\ pc' = "images") =>
                  /\ data' = data
                  /\ Len(currentDeck') = Len(currentDeck)
                  /\ \A i \in 1..Len(currentDeck) :
                        SameDescriptor(currentDeck'[i], currentDeck[i])]_vars

\* a submit can arrive (main view shown, facts typed) while requests of the
\* generation in flight are outstanding and one has already settled
C11_Witness ==
    /\ isLoading
    /\ pc = "images"
    /\ Cardinality(pending) = 2
    /\ Len(data) = 3
    /\ ~mainHidden
    /\ Trim(factsInput) # <<>>
    /\ alertOpen = "none"

\* the page after a failed narrative call, for as long as the error is shown
NarrativeFailed(shown, deck, hidden, loading, outstanding, gallery, at) ==
    shown = "error" =>
        /\ deck = <<>>
        /\ hidden
        /\ ~loading
        /\ outstanding = {}
        /\ gallery = <<>>
        /\ at = "idle"

\* C12: when the narrative call fails or its response does not parse, the
\* generic error is shown with the Deck empty, the start-review control
\* hidden, the loading flag down and no illustration request issued, and the
\* failing step leaves the balance and its persisted copy untouched.
C12_NarrativeFailureLeavesNothing ==
    [][/\ NarrativeFailed(storyOutput, currentDeck, startReviewHidden,
                          isLoading, pending, characterGallery, pc)
       /\ NarrativeFailed(storyOutput', currentDeck', startReviewHidden',
                          isLoading', pending', characterGallery', pc')
       /\ (pc = "narrative" /\ storyOutput' = "error") =>
             UNCHANGED <<coins, localStorage, coinCount,
                         coinsEarnedThisSession>>]_vars

\* a narrative failure that follows a rewarded story: the earlier Deck is gone
C12_Witness ==
    /\ storyOutput = "error"
    /\ currentDeck = <<>>
    /\ startReviewHidden
    /\ ~isLoading
    /\ factsInput = <<>>
    /\ coins = COINS_PER_STORY

\* the cards of the gallery that show the warning sign (1-based)
WarningCards(gallery) == {i \in 1..Len(gallery) : gallery[i] = "warning"}

\* the indices (1-based) whose request settles in this step
SettledNow == {i \in 1..Len(data) : (i - 1) \in pending /\ (i - 1) \notin pending'}

\* C13: a failing illustration request degrades only its own entry, which
\* keeps its fact and name and shows the warning; no other entry or card
\* changes and the story stays; when the last request settles the Deck has one
\* entry per character, exactly the failed indices lack an imageUrl, the
\* start-review control is revealed, the story coins are credited and the
\* loading flag is cleared; a Deck of two or more entries passes startQuiz's
\* size check.
C13_ImageFailureIsLocal ==
    [][(pc = "images" /\ storyOutput' # "placeholder") =>
            /\ storyOutput' = "story"
            /\ Len(currentDeck') = Len(data)
            /\ Len(characterGallery') = Len(data)
            /\ \A i \in 1..Len(data) :
                  IF i \in SettledNow
                  THEN /\ SameDescriptor(currentDeck'[i], currentDeck[i])
                       /\ characterGallery'[i] \in {"img", "warning"}
                       /\ characterGallery'[i] = "warning"
                             <=> currentDeck'[i].imageUrl = NoImage
                  ELSE /\ currentDeck'[i] = currentDeck[i]
                       /\ characterGallery'[i] = characterGallery[i]
            /\ pending' = {} <=> pc' = "idle"
            /\ pc' = "idle" =>
                  /\ MissingImages' = WarningCards(characterGallery')
                  /\ ~startReviewHidden'
                  /\ ~isLoading'
                  /\ coins' = coins + COINS_PER_STORY
                  /\ Len(data) >= 2 => ~DeckTooSmall(currentDeck')]_vars

\* a quiz runs over a Deck whose second illustration failed
C13_Witness ==
    /\ characterGallery = <<"img", "warning", "img">>
    /\ MissingImages = {2}
    /\ ~quizHidden
    /\ coins = COINS_PER_STORY

\* a text of white space only (the empty text included)
Blank(s) == \A i \in 1..Len(s) : s[i] = " "

\* C14: with a facts text that is empty after trimming, no step starts a
\* generation (no external call is issued), and the submit that raises the
\* alert leaves the loading flag, the Deck, the output area with its
\* start-review control, the views, the quiz state and the balance untouched;
\* the alert is raised for such texts only.
C14_BlankFactsRejected ==
    [][/\ (Blank(factsInput) /\ pc = "idle") => pc' = "idle" /\ ~isLoading'
       /\ (alertOpen = "none" /\ alertOpen' = "facts") =>
            /\ Blank(factsInput)
            /\ UNCHANGED <<ledgerVars, quizVars, viewVars, outputVars,
                           genVars, currentDeck, factsInput>>]_vars

\* blanks submitted over the Deck a previous generation left behind
C14_Witness ==
    /\ alertOpen = "facts"
    /\ factsInput = <<" ", " ">>
    /\ ~startReviewHidden
    /\ Len(currentDeck) >= 2
    /\ coins = COINS_PER_STORY

\* C15: an entry's imageUrl, once present, is neither cleared nor overwritten
\* by any step that keeps the Deck; it goes away only when the Deck is
\* replaced wholesale by the empty Deck of a new generation or page load.
C15_ImageUrlWrittenOnce ==
    [][\A i \in 1..Len(currentDeck) :
          currentDeck[i].imageUrl # NoImage =>
              \/ currentDeck' = <<>>
              \/ /\ i <= Len(currentDeck')
                 /\ currentDeck'[i].imageUrl = currentDeck[i].imageUrl]_vars

\* the first illustration arrived, the second failed, and the quiz over this
\* Deck has run to its summary
C15_Witness ==
    /\ ~summaryHidden
    /\ Len(currentDeck) = 2
    /\ currentDeck[1].imageUrl = ImageUrl("QUJD")
    /\ MissingImages = {2}

\* one answer per question: a pending advance timer means the options of the
\* question on display are disabled, and the other way round
OneAnswer(timers, disabled, hidden, index, points) ==
    /\ timers \in {0, 1}
    /\ timers = 1 => disabled /\ ~hidden
    /\ (~hidden /\ disabled) => timers = 1
    /\ ~hidden => points <= index + timers

\* C16: each question takes exactly one answer: the answer disables the
\* options until the next question is displayed, raises the score by at most
\* one and schedules the only pending advance timer; the question index moves
\* only when that timer fires, and then by exactly one.
C16_OneAnswerPerQuestion ==
    [][/\ OneAnswer(advanceTimers, buttonsDisabled, quizHidden,
                    currentQuestionIndex, score)
       /\ OneAnswer(advanceTimers', buttonsDisabled', quizHidden',
                    currentQuestionIndex', score')
       /\ score' # score =>
            \/ score' = 0 /\ currentQuestionIndex' = 0
            \/ /\ score' = score + 1
               /\ ~buttonsDisabled /\ buttonsDisabled'
               /\ advanceTimers = 0 /\ advanceTimers' = 1
               /\ currentQuestionIndex' = currentQuestionIndex
       /\ currentQuestionIndex' # currentQuestionIndex =>
            \/ currentQuestionIndex' = 0 /\ advanceTimers' = 0
            \/ /\ currentQuestionIndex' = currentQuestionIndex + 1
               /\ advanceTimers = 1 /\ advanceTimers' = 0
               /\ score' = score]_vars

\* the second question has just been answered correctly, like the first
C16_Witness ==
    /\ ~quizHidden
    /\ buttonsDisabled
    /\ advanceTimers = 1
    /\ currentQuestionIndex = 1
    /\ score = 2

\* the session's counters while the quiz view or the summary is on display
QuizBounds ==
    /\ ~quizHidden =>
          /\ 0 <= currentQuestionIndex
          /\ currentQuestionIndex < Len(currentDeck)
          /\ currentDeck[currentQuestionIndex + 1] # Hole
          /\ correctAnswer = currentDeck[currentQuestionIndex + 1].fact
          /\ 0 <= score
          /\ score <= currentQuestionIndex + 1
          /\ summaryHidden
    /\ ~summaryHidden =>
          /\ currentQuestionIndex = Len(currentDeck)
          /\ 0 <= score
          /\ score <= currentQuestionIndex
          /\ quizHidden

\* the page was loaded again, which ends a session without a summary
PageReloaded == quizHidden /\ summaryHidden /\ currentDeck = <<>>

\* C17: during a quiz 0 <= currentQuestionIndex <= deck.length and
\* 0 <= score <= currentQuestionIndex + 1; the question on display is that of
\* an existing Deck entry (index < deck.length); the summary is on display
\* exactly with currentQuestionIndex = deck.length; and, the user answering
\* and the timers firing, a started quiz reaches its summary unless the page
\* is loaded again first.
C17_QuizRunsToSummary ==
    /\ []QuizBounds
    /\ ~quizHidden ~> (~summaryHidden \/ PageReloaded)

\* a quiz over three entries has reached its summary with one wrong answer
C17_Witness ==
    /\ ~summaryHidden
    /\ quizHidden
    /\ currentQuestionIndex = 3
    /\ Len(currentDeck) = 3
    /\ score = 2

\* C18: whenever the start-review control is visible the Deck is non-empty
\* and holds an entry at every index of the narrative response, and no
\* generation is in flight (flag down, nothing awaited, no request out).
C18_ReviewVisibleMeansDeck ==
    ~startReviewHidden =>
        /\ currentDeck # <<>>
        /\ Len(currentDeck) = Len(data)
        /\ \A i \in 1..Len(currentDeck) :
              currentDeck[i] # Hole /\ SameDescriptor(currentDeck[i], data[i])
        /\ ~isLoading
        /\ pc = "idle"
        /\ pending = {}

\* the control is on offer over a Deck of one entry whose illustration failed
C18_Witness ==
    /\ ~startReviewHidden
    /\ ~mainHidden
    /\ Len(currentDeck) = 1
    /\ MissingImages = {1}
    /\ alertOpen = "none"

\* C19 as the specification states it: once a session over a Deck has been
\* summarised and the user is back in the authoring view, that same Deck is
\* still on offer for a fresh session (the start-review control is visible).
C19_SameDeckReenterable ==
    (/\ ~mainHidden
     /\ summaryHidden
     /\ summaryScore # <<>>
     /\ pc = "idle"
     /\ ~DeckTooSmall(currentDeck)) => ~startReviewHidden

\* C19, amended: the reset after the summary returns to the authoring view
\* with the Deck retained but the start-review control hidden; the control
\* comes back only when a new generation completes, so the next session runs
\* over the Deck of a new story; every session that is entered starts with
\* currentQuestionIndex = 0, score = 0 and session reward = 0.
C19_FreshSessionAfterNewStory ==
    [][/\ (~summaryHidden /\ summaryHidden' /\ currentDeck' # <<>>) =>
            /\ ~mainHidden'
            /\ currentDeck' = currentDeck
            /\ startReviewHidden'
       /\ (startReviewHidden /\ ~startReviewHidden') =>
            pc = "images" /\ pc' = "idle"
       /\ (quizHidden /\ ~quizHidden') =>
            /\ currentQuestionIndex' = 0
            /\ score' = 0
            /\ coinsEarnedThisSession' = 0]_vars

\* a second session has just started, after one that scored a point
C19_Witness ==
    /\ ~quizHidden
    /\ summaryScore # <<>>
    /\ summaryScore[1] = toString(1)
    /\ currentQuestionIndex = 0
    /\ score = 0
    /\ coinsEarnedThisSession = 0
    /\ ~buttonsDisabled

\* C20: while a quiz is in progress (feedback delay included) the authoring
\* view with its generate button is hidden, no generation is in flight and no
\* step starts one; until the summary is shown the Deck stays as it is, and
\* the session reward grows only by the award of a correct answer.
C20_QuizExcludesGeneration ==
    [][/\ ~quizHidden =>
            mainHidden /\ pc = "idle" /\ ~isLoading /\ pending = {}
       /\ (~quizHidden /\ mainHidden') =>
            /\ pc' = "idle" /\ ~isLoading' /\ pending' = {}
            /\ currentDeck' = currentDeck
            /\ DeckFacts' = DeckFacts
            /\ coinsEarnedThisSession' - coinsEarnedThisSession
                  \in {0, COINS_PER_CORRECT_ANSWER}]_vars

\* the feedback delay of the last of three questions, two answered correctly
C20_Witness ==
    /\ ~quizHidden
    /\ mainHidden
    /\ advanceTimers = 1
    /\ currentQuestionIndex = 2
    /\ Len(currentDeck) = 3
    /\ coinsEarnedThisSession = 2 * COINS_PER_CORRECT_ANSWER

====
